---------------------------- MODULE Spec2Model ----------------------------
(***************************************************************************)
(* A model of pi-tube's transcription core: the slug normaliser            *)
(* (utils.py), API-key resolution and the two transcription providers      *)
(* (config.py, transcribe/), and the transcribe flow of the CLI (cli.py).  *)
(* Text is a sequence of one-character strings.                            *)
(***************************************************************************)
EXTENDS Integers, Sequences, FiniteSets, TLC

VARIABLES
    \* slugify applied twice
    text, slug1, slug2, slugpc,
    \* API-key resolution and one provider call
    os_environ, env0, dotenv_file, config_file, Config,
    override_arg, transcriber, call_args, outcome, ppc,
    \* one run of the transcribe command
    pc, provider, input_source, output, language, keep_audio,
    fs, fs0, audio_path, cleanup_audio, result, saved, deleted,
    calls, error, exit_status, escaped,
    \* the number of the run: the command may be invoked again on what a run left
    run

slugVars == <<text, slug1, slug2, slugpc>>

provVars == <<os_environ, env0, dotenv_file, config_file, Config,
              override_arg, transcriber, call_args, outcome, ppc>>

flowVars == <<pc, provider, input_source, output, language, keep_audio,
              fs, fs0, audio_path, cleanup_audio, result, saved, deleted,
              calls, error, exit_status, escaped, run>>

vars == <<slugVars, provVars, flowVars>>

(***************************************************************************)
(* Characters                                                              *)
(***************************************************************************)
UpperChars == <<"A","B","C","D","E","F","G","H","I","J","K","L","M",
                "N","O","P","Q","R","S","T","U","V","W","X","Y","Z">>

LowerChars == <<"a","b","c","d","e","f","g","h","i","j","k","l","m",
                "n","o","p","q","r","s","t","u","v","w","x","y","z">>

DigitChars == {"0","1","2","3","4","5","6","7","8","9"}

Range(s) == {s[i] : i \in DOMAIN s}

\* the regex class \s, as far as the modelled alphabets go
Whitespace == {" ", "\t", "\n"}

IsAlnum(c) == c \in Range(UpperChars) \cup Range(LowerChars) \cup DigitChars

\* str.lower() on one character
ToLower(c) ==
    IF c \in Range(UpperChars)
    THEN LowerChars[CHOOSE i \in DOMAIN UpperChars : UpperChars[i] = c]
    ELSE c

Lower(s) == [i \in DOMAIN s |-> ToLower(s[i])]

(***************************************************************************)
(* utils.slugify                                                           *)
(***************************************************************************)
\* re.sub(r'[^a-zA-Z0-9\s-]', '', text)
StripSpecial(s) ==
    SelectSeq(s, LAMBDA c : IsAlnum(c) \/ c \in Whitespace \/ c = "-")

RECURSIVE DropWhile(_, _)
DropWhile(s, S) ==
    IF s # <<>> /\ Head(s) \in S THEN DropWhile(Tail(s), S) ELSE s

\* re.sub(r'[S]+', '-', text): every maximal run of characters of S becomes one hyphen
RECURSIVE ReplaceRuns(_, _)
ReplaceRuns(s, S) ==
    IF s = <<>> THEN <<>>
    ELSE IF Head(s) \in S
         THEN <<"-">> \o ReplaceRuns(DropWhile(Tail(s), S), S)
         ELSE <<Head(s)>> \o ReplaceRuns(Tail(s), S)

RECURSIVE DropTrailing(_, _)
DropTrailing(s, S) ==
    IF s # <<>> /\ s[Len(s)] \in S
    THEN DropTrailing(SubSeq(s, 1, Len(s) - 1), S)
    ELSE s

\* str.strip('-')
StripHyphens(s) == DropTrailing(DropWhile(s, {"-"}), {"-"})

\* a slugify that forgets to trim the hyphens at the ends
slugifyNoStrip(s) ==
    Lower(ReplaceRuns(ReplaceRuns(StripSpecial(s), Whitespace \cup {"_"}), {"-"}))

slugify(s) ==
    Lower(StripHyphens(
        ReplaceRuns(ReplaceRuns(StripSpecial(s), Whitespace \cup {"_"}), {"-"})))

(***************************************************************************)
(* config.py: API keys from the process environment, .env and the          *)
(* persisted config file                                                   *)
(***************************************************************************)
None == "<None>"

Absent == "<absent>"

KeyNames == {"DEEPGRAM_API_KEY", "GROQ_API_KEY"}

Truthy(v) == v # None /\ v # ""

\* the config file's entries win over the process environment
MergeFileOverEnv(environ, file) ==
    [k \in KeyNames |-> IF file[k] # Absent THEN file[k] ELSE environ[k]]

\* config.py:13-17 and dotenv's load_dotenv(): a key is set only `if key not in os.environ`
MergeIfNotInEnviron(environ, file) ==
    [k \in KeyNames |-> IF environ[k] = Absent THEN file[k] ELSE environ[k]]

\* os.environ once config.py has been imported: load_dotenv(), then the config file
ImportedEnviron(environ, dotenv, cfgfile) ==
    MergeIfNotInEnviron(MergeIfNotInEnviron(environ, dotenv), cfgfile)

\* os.getenv(key, "")
getenv(environ, k) == IF environ[k] = Absent THEN "" ELSE environ[k]

\* class Config: DEEPGRAM_API_KEY, GROQ_API_KEY
ConfigKeys(environ) == [k \in KeyNames |-> getenv(environ, k)]

(***************************************************************************)
(* transcribe/deepgram.py, transcribe/groq.py                              *)
(***************************************************************************)
ProviderNames == {"deepgram", "groq"}

KeyOf(name) == IF name = "deepgram" THEN "DEEPGRAM_API_KEY" ELSE "GROQ_API_KEY"

\* __init__: self.api_key = api_key or Config.<KEY>
NewTranscriber(name, api_key, config) ==
    [name |-> name,
     api_key |-> IF Truthy(api_key) THEN api_key ELSE config[KeyOf(name)]]

\* a provider that counts as configured whatever its key
is_configuredAlways(t) == TRUE

\* is_configured: bool(self.api_key)
is_configured(t) == t.api_key # ""

NoField == "<no field>"

NoRequest == [sent |-> FALSE, model |-> "<none>", language |-> NoField,
              detect_language |-> FALSE]

NoError == [cls |-> "<none>", msg |-> "<none>"]

NoResult == [text |-> "<none>", language |-> None, provider |-> "<none>"]

Raised(cls, msg, request, n) ==
    [status |-> "error", error |-> [cls |-> cls, msg |-> msg],
     result |-> NoResult, request |-> request, netCalls |-> n]

Returned(res, request) ==
    [status |-> "ok", error |-> NoError, result |-> res,
     request |-> request, netCalls |-> 1]

\* What the backend answers to the one request: a transcript (with or without a
\* detected language), a response without results, an HTTP error status, or a
\* failure of the connection.
HttpStatuses == {400, 401, 429, 500, 503}

BackendReplies ==
    {[kind |-> "ok", detected |-> d] : d \in {Absent, "pt"}}
    \cup {[kind |-> "empty"], [kind |-> "network"]}
    \cup {[kind |-> "http", status_code |-> s] : s \in HttpStatuses}

\* deepgram.py:68-82: the options of transcribe_file
DeepgramRequest(lang) ==
    [sent |-> TRUE, model |-> "nova-3",
     language |-> IF Truthy(lang) THEN lang ELSE NoField,
     detect_language |-> ~Truthy(lang)]

\* deepgram.py:134-143: except ApiError
DeepgramApiError(status_code, request) ==
    IF status_code = 401 THEN Raised("ValueError", "Invalid Deepgram API key", request, 1)
    ELSE IF status_code = 429 THEN Raised("ValueError", "Rate limit exceeded", request, 1)
    ELSE IF status_code >= 500 THEN Raised("ValueError", "Deepgram server error", request, 1)
    ELSE Raised("ValueError", "Deepgram API error", request, 1)

\* deepgram.py:84-143: the request and the mapping of its answer
DeepgramSend(lang, reply) ==
    LET request == DeepgramRequest(lang) IN
    CASE reply.kind = "http" -> DeepgramApiError(reply.status_code, request)
      [] reply.kind = "network" -> Raised("ConnectionError", "connection failed", request, 1)
      [] reply.kind = "empty" ->
           Raised("ValueError", "No transcription results returned", request, 1)
      [] OTHER ->
           Returned([text |-> "transcript",
                     language |-> IF reply.detected # Absent THEN reply.detected
                                  ELSE IF Truthy(lang) THEN lang ELSE "auto",
                     provider |-> "deepgram"], request)

\* DeepgramProvider.transcribe
DeepgramTranscribe(api_key, exists, lang, reply) ==
    IF ~exists THEN Raised("FileNotFoundError", "Audio file not found", NoRequest, 0)
    ELSE IF api_key = "" THEN Raised("ValueError", "API key not configured", NoRequest, 0)
    ELSE DeepgramSend(lang, reply)

\* groq.py:63-70: the arguments of audio.transcriptions.create
GroqRequest(lang) ==
    [sent |-> TRUE, model |-> "whisper-large-v3-turbo",
     language |-> IF Truthy(lang) THEN lang ELSE "pt",
     detect_language |-> FALSE]

\* groq.py:62-84: the request; there is no except clause, the client's exception
\* propagates as it was raised
GroqSend(lang, reply) ==
    LET request == GroqRequest(lang) IN
    CASE reply.kind = "http" -> Raised("groq.APIError", "status error", request, 1)
      [] reply.kind = "network" -> Raised("groq.APIError", "connection failed", request, 1)
      [] OTHER ->
           Returned([text |-> "transcript",
                     language |-> IF reply.kind = "ok" /\ reply.detected # Absent
                                  THEN reply.detected ELSE lang,
                     provider |-> "groq"], request)

\* a transcribe that asks for the client before it looks at the path
GroqTranscribeClientFirst(api_key, exists, lang, reply) ==
    IF api_key = "" THEN Raised("ValueError", "API key not configured", NoRequest, 0)
    ELSE IF ~exists THEN Raised("FileNotFoundError", "Audio file not found", NoRequest, 0)
    ELSE GroqSend(lang, reply)

\* GroqProvider.transcribe
GroqTranscribe(api_key, exists, lang, reply) ==
    IF ~exists THEN Raised("FileNotFoundError", "Audio file not found", NoRequest, 0)
    ELSE IF api_key = "" THEN Raised("ValueError", "API key not configured", NoRequest, 0)
    ELSE GroqSend(lang, reply)

ProviderTranscribe(t, exists, lang, reply) ==
    IF t.name = "deepgram"
    THEN DeepgramTranscribe(t.api_key, exists, lang, reply)
    ELSE GroqTranscribe(t.api_key, exists, lang, reply)

(***************************************************************************)
(* Files and paths: a path is a directory, a stem and an extension         *)
(***************************************************************************)
Path(dir, stem, ext) == [dir |-> dir, stem |-> stem, ext |-> ext]

NoPath == Path("<none>", <<>>, <<>>)

EndsWith(s, suffix) ==
    /\ Len(suffix) <= Len(s)
    /\ SubSeq(s, Len(s) - Len(suffix) + 1, Len(s)) = suffix

(***************************************************************************)
(* downloader.py                                                           *)
(***************************************************************************)
\* is_youtube_url: the source is one of the recognised URL shapes
is_youtube_url(src) == src.kind = "remote"

NoTitle == <<"<no title>">>

\* info.get("title", default)
TitleOr(src, default) == IF src.title = NoTitle THEN default ELSE src.title

ReservedChars == {"<", ">", ":", "\"", "/", "\\", "|", "?", "*"}

\* re.sub(r'[<>:"/\\|?*]', "_", filename)
Sanitize(s) == [i \in DOMAIN s |-> IF s[i] \in ReservedChars THEN "_" ELSE s[i]]

\* download_audio: the file the download leaves in the temp directory
DownloadPath(src, ext) == Path("tmp", Sanitize(TitleOr(src, <<"a","u","d","i","o">>)), ext)

DownloadExts == {<<".","m","p","3">>, <<".","m","4","a">>}

(***************************************************************************)
(* audio.py                                                                *)
(***************************************************************************)
AUDIO_SAMPLE_RATE == 16000

AUDIO_CHANNELS == 1

SUPPORTED_VIDEO_FORMATS ==
    {<<".","m","p","4">>, <<".","m","k","v">>, <<".","a","v","i">>,
     <<".","m","o","v">>, <<".","w","e","b","m">>, <<".","f","l","v">>}

SUPPORTED_AUDIO_FORMATS ==
    {<<".","m","p","3">>, <<".","w","a","v">>, <<".","m","4","a">>,
     <<".","o","g","g">>, <<".","f","l","a","c">>, <<".","a","a","c">>}

is_audio_file(p) == Lower(p.ext) \in SUPPORTED_AUDIO_FORMATS

is_video_file(p) == Lower(p.ext) \in SUPPORTED_VIDEO_FORMATS

\* get_audio_info's answer when the probe fails or finds no audio stream
NoInfo == [sample_rate |-> 0, channels |-> 0, empty |-> TRUE]

\* a needs_conversion that converts only when both the rate and the channels differ
needs_conversionBothDiffer(p, info) ==
    IF is_video_file(p) THEN TRUE
    ELSE IF Lower(p.ext) # <<".","w","a","v">> THEN TRUE
    ELSE IF info.empty THEN TRUE
    ELSE info.sample_rate # AUDIO_SAMPLE_RATE /\ info.channels # AUDIO_CHANNELS

\* needs_conversion calls get_audio_info (ffprobe) for a WAV file that is no video
ProbesAudio(p) == ~is_video_file(p) /\ Lower(p.ext) = <<".","w","a","v">>

needs_conversion(p, info) ==
    IF is_video_file(p) THEN TRUE
    ELSE IF Lower(p.ext) # <<".","w","a","v">> THEN TRUE
    ELSE IF info.empty THEN TRUE
    ELSE info.sample_rate # AUDIO_SAMPLE_RATE \/ info.channels # AUDIO_CHANNELS

\* extract_audio: <temp dir>/<input stem>_audio.wav
ExtractPath(p) == Path("tmp", p.stem \o <<"_","a","u","d","i","o">>, <<".","w","a","v">>)

(***************************************************************************)
(* cli.py: _transcribe_with_provider                                       *)
(***************************************************************************)
\* get_provider(provider): DeepgramProvider() / GroqProvider()
get_provider(name, config) == NewTranscriber(name, None, config)

\* a look-up in the temp directory instead of the base output directory
GlobTempDir(files, slug) ==
    {f \in files : /\ f.dir = "tmp"
                   /\ f.ext = <<".","m","d">>
                   /\ EndsWith(f.stem, <<"-">> \o slug)}

\* output_dir.glob(f"*-{slug_name}.md"): the base output directory's matching transcripts
GlobExisting(files, slug) ==
    {f \in files : /\ f.dir = "output"
                   /\ f.ext = <<".","m","d">>
                   /\ EndsWith(f.stem, <<"-">> \o slug)}

\* datetime.now().strftime("%Y-%m-%d")
Today == <<"2","0","2","4","-","0","5","-","0","1">>

\* output_dir / f"{date_prefix}-{normalized_name}.md"
DefaultOutput(audio) == Path("output", Today \o <<"-">> \o slugify(audio.stem), <<".","m","d">>)

\* every temporary file is cleaned up, the retention request is ignored
CleanupFlagAlways(keep) == TRUE

\* cleanup_audio = not keep_audio
CleanupFlag(keep) == ~keep

\* the cleanup placed ahead of result.save(output)
CleanupBeforeSave(at) == at \in {"Transcribed", "Persisted"}

\* cli.py:163-168: the cleanup follows result.save(output)
CleanupPoint(at) == at = "Persisted"

\* the classes except Exception catches: every class the stages raise derives from it
ExceptionClasses ==
    {"typer.Exit", "ValueError", "FileNotFoundError", "ConnectionError", "OSError",
     "groq.APIError", "ffmpeg.Error", "yt_dlp.DownloadError"}

Exc(cls, msg) == [cls |-> cls, msg |-> msg]

\* a handler that catches ValueError only
HandlerValueErrorOnly(exc) ==
    IF exc.cls = "ValueError" THEN [exit |-> 1, escaped |-> FALSE]
    ELSE [exit |-> 1, escaped |-> TRUE]

\* except Exception as e: print, raise typer.Exit(1)
TopLevelHandler(exc) ==
    IF exc.cls \in ExceptionClasses THEN [exit |-> 1, escaped |-> FALSE]
    ELSE [exit |-> 1, escaped |-> TRUE]

(***************************************************************************)
(* Bounds and input alphabets                                              *)
(***************************************************************************)
MaxLen == 4

MaxTitleLen == 2

MaxStemLen == 1

MaxRuns == 2

SlugAlphabet == {"a", "B", "7", " ", "-", "_", "!"}

TitleAlphabet == {"a", "B", " ", ":"}

\* "My Video! Title_2024"
ExampleTitle ==
    <<"M","y"," ","V","i","d","e","o","!"," ","T","i","t","l","e","_","2","0","2","4">>

RECURSIVE StringsUpTo(_, _)
StringsUpTo(A, n) ==
    IF n = 0 THEN {<<>>}
    ELSE LET shorter == StringsUpTo(A, n - 1)
         IN  shorter \cup {Append(s, c) : s \in {t \in shorter : Len(t) = n - 1}, c \in A}

\* a video's title is not empty; the metadata may lack the title
Titles == (StringsUpTo(TitleAlphabet, MaxTitleLen) \ {<<>>}) \cup {NoTitle}

Stems == StringsUpTo(TitleAlphabet, MaxStemLen) \ {<<>>}

OldDate == <<"2","0","2","4","-","0","4","-","3","0">>

\* transcripts an earlier run may have left in the base output directory
ExistingSamples ==
    {Path("output", OldDate \o <<"-">> \o s, <<".","m","d">>) :
        s \in {<<"a">>, <<"b","-","a">>, <<>>}}

LocalExts == {<<".","w","a","v">>, <<".","W","A","V">>, <<".","m","p","3">>,
              <<".","m","p","4">>, <<".","x","y","z">>}

ProbeInfos ==
    {NoInfo,
     [sample_rate |-> 16000, channels |-> 1, empty |-> FALSE],
     [sample_rate |-> 44100, channels |-> 2, empty |-> FALSE],
     [sample_rate |-> 44100, channels |-> 1, empty |-> FALSE],
     [sample_rate |-> 16000, channels |-> 2, empty |-> FALSE]}

RemoteSources == {[kind |-> "remote", title |-> t] : t \in Titles}

\* a local path: the probe's answer matters for an existing WAV file only
LocalSources ==
    {src \in [kind : {"local"}, path : {Path("user", st, e) : st \in Stems, e \in LocalExts},
              exists : BOOLEAN, info : ProbeInfos] :
        (src.info # NoInfo) => (src.exists /\ Lower(src.path.ext) = <<".","w","a","v">>)}

ExplicitOutput == Path("cwd", <<"o","u","t">>, <<".","t","x","t">>)

(***************************************************************************)
(* Values of the variables a specification does not use                    *)
(***************************************************************************)
NoText == <<"?">>

Unloaded == [k \in KeyNames |-> "<unloaded>"]

NoTranscriber == [name |-> "<none>", api_key |-> ""]

NoCall == [exists |-> FALSE, language |-> None, reply |-> [kind |-> "<none>"]]

NoOutcome ==
    [status |-> "<none>", error |-> NoError, result |-> NoResult,
     request |-> NoRequest, netCalls |-> 0]

NoCalls == [probe |-> 0, audio_probe |-> 0, download |-> 0, convert |-> 0,
            transcribe |-> 0, write |-> 0, unlink |-> 0]

SlugIdle ==
    /\ text = <<>>
    /\ slug1 = NoText
    /\ slug2 = NoText
    /\ slugpc = "idle"

ProvIdle ==
    /\ env0 = [k \in KeyNames |-> Absent]
    /\ os_environ = env0
    /\ dotenv_file = [k \in KeyNames |-> Absent]
    /\ config_file = [k \in KeyNames |-> Absent]
    /\ Config = Unloaded
    /\ override_arg = None
    /\ transcriber = NoTranscriber
    /\ call_args = NoCall
    /\ outcome = NoOutcome
    /\ ppc = "idle"

FlowIdle ==
    /\ pc = "idle"
    /\ provider = "<none>"
    /\ input_source = [kind |-> "<none>"]
    /\ output = NoPath
    /\ language = None
    /\ keep_audio = FALSE
    /\ fs = {}
    /\ fs0 = {}
    /\ audio_path = NoPath
    /\ cleanup_audio = FALSE
    /\ result = NoResult
    /\ saved = NoPath
    /\ deleted = {}
    /\ calls = NoCalls
    /\ error = NoError
    /\ exit_status = -1
    /\ escaped = FALSE
    /\ run = 0

(***************************************************************************)
(* SpecSlug: slugify applied to an input text, then to its own output      *)
(***************************************************************************)
InitSlug ==
    /\ ProvIdle
    /\ FlowIdle
    /\ text \in StringsUpTo(SlugAlphabet, MaxLen) \cup {ExampleTitle}
    /\ slug1 = NoText
    /\ slug2 = NoText
    /\ slugpc = "input"

SlugifyOnce ==
    /\ slugpc = "input"
    /\ slug1' = slugify(text)
    /\ slugpc' = "once"
    /\ UNCHANGED <<text, slug2>>
    /\ UNCHANGED <<provVars, flowVars>>

SlugifyTwice ==
    /\ slugpc = "once"
    /\ slug2' = slugify(slug1)
    /\ slugpc' = "twice"
    /\ UNCHANGED <<text, slug1>>
    /\ UNCHANGED <<provVars, flowVars>>

NextSlug == SlugifyOnce \/ SlugifyTwice

SpecSlug == InitSlug /\ [][NextSlug]_vars

(***************************************************************************)
(* SpecProvider: config.py is imported, a provider is constructed and      *)
(* transcribe is called once                                               *)
(***************************************************************************)
Languages == {None, "en", "pt-BR"}

InitProvider ==
    /\ SlugIdle
    /\ FlowIdle
    /\ env0 \in [KeyNames -> {Absent, "", "envkey"}]
    /\ os_environ = env0
    /\ dotenv_file \in [KeyNames -> {Absent, "dotenvkey"}]
    /\ config_file \in [KeyNames -> {Absent, "", "filekey"}]
    /\ Config = Unloaded
    /\ override_arg = None
    /\ transcriber = NoTranscriber
    /\ call_args = NoCall
    /\ outcome = NoOutcome
    /\ ppc = "start"

\* import of pi_tube.config
ImportConfig ==
    /\ ppc = "start"
    /\ os_environ' = ImportedEnviron(os_environ, dotenv_file, config_file)
    /\ Config' = ConfigKeys(os_environ')
    /\ ppc' = "imported"
    /\ UNCHANGED <<env0, dotenv_file, config_file, override_arg, transcriber,
                   call_args, outcome>>
    /\ UNCHANGED <<slugVars, flowVars>>

\* DeepgramProvider(api_key) / GroqProvider(api_key)
Construct ==
    /\ ppc = "imported"
    /\ \E name \in ProviderNames, api_key \in {None, "", "overridekey"} :
          /\ override_arg' = api_key
          /\ transcriber' = NewTranscriber(name, api_key, Config)
    /\ ppc' = "constructed"
    /\ UNCHANGED <<os_environ, env0, dotenv_file, config_file, Config,
                   call_args, outcome>>
    /\ UNCHANGED <<slugVars, flowVars>>

\* transcriber.transcribe(audio_path, language)
CallTranscribe ==
    /\ ppc = "constructed"
    /\ \E exists \in BOOLEAN, lang \in Languages, reply \in BackendReplies :
          /\ call_args' = [exists |-> exists, language |-> lang, reply |-> reply]
          /\ outcome' = ProviderTranscribe(transcriber, exists, lang, reply)
    /\ ppc' = "called"
    /\ UNCHANGED <<os_environ, env0, dotenv_file, config_file, Config,
                   override_arg, transcriber>>
    /\ UNCHANGED <<slugVars, flowVars>>

NextProvider == ImportConfig \/ Construct \/ CallTranscribe

SpecProvider == InitProvider /\ [][NextProvider]_vars

(***************************************************************************)
(* Spec: one run of _transcribe_with_provider                              *)
(***************************************************************************)
inputVars == <<provider, input_source, output, language, keep_audio, fs0, run>>

configVars == <<os_environ, env0, dotenv_file, config_file, Config,
                override_arg, call_args, ppc>>

OutputFiles(files) == {f \in files : f.dir = "output"}

\* Config.ensure_output_dir(): the fixed base output directory, created on demand;
\* creating it can fail only while it holds no file yet
EnsureOutputDirCanFail(files) == OutputFiles(files) = {}

Init ==
    /\ SlugIdle
    /\ env0 \in [KeyNames -> {Absent, "envkey"}]
    /\ dotenv_file = [k \in KeyNames |-> Absent]
    /\ config_file = [k \in KeyNames |-> Absent]
    /\ os_environ = ImportedEnviron(env0, dotenv_file, config_file)
    /\ Config = ConfigKeys(os_environ)
    /\ override_arg = None
    /\ transcriber = NoTranscriber
    /\ call_args = NoCall
    /\ outcome = NoOutcome
    /\ ppc = "idle"
    /\ pc = "Start"
    /\ provider \in ProviderNames
    /\ input_source \in RemoteSources \cup LocalSources
    /\ output \in {NoPath, ExplicitOutput}
    /\ language \in {None, "en"}
    /\ keep_audio \in BOOLEAN
    /\ \E existing \in {{}} \cup {{f} : f \in ExistingSamples} :
          /\ fs0 = existing \cup (IF input_source.kind = "local" /\ input_source.exists
                                  THEN {input_source.path} ELSE {})
          /\ fs = fs0
    /\ audio_path = NoPath
    /\ cleanup_audio = FALSE
    /\ result = NoResult
    /\ saved = NoPath
    /\ deleted = {}
    /\ calls = NoCalls
    /\ error = NoError
    /\ exit_status = -1
    /\ escaped = FALSE
    /\ run = 1

\* an exception reaches the except clause of cli.py:181-183
Fail(exc) ==
    /\ pc' = "Failed"
    /\ error' = exc
    /\ exit_status' = TopLevelHandler(exc).exit
    /\ escaped' = TopLevelHandler(exc).escaped

Called(field) == [calls EXCEPT ![field] = @ + 1]

\* cli.py:79-86, 92, 120-131: the provider, its configuration, the kind of source
Classify ==
    /\ pc = "Start"
    /\ transcriber' = get_provider(provider, Config)
    /\ IF ~is_configured(transcriber')
       THEN Fail(Exc("typer.Exit", "API key not configured"))
       ELSE IF is_youtube_url(input_source)
       THEN pc' = "Classified" /\ UNCHANGED <<error, exit_status, escaped>>
       ELSE IF ~input_source.exists
       THEN Fail(Exc("typer.Exit", "File not found"))
       ELSE IF ~(is_audio_file(input_source.path) \/ is_video_file(input_source.path))
       THEN Fail(Exc("typer.Exit", "Unsupported file format"))
       ELSE pc' = "Classified" /\ UNCHANGED <<error, exit_status, escaped>>
    /\ UNCHANGED <<fs, audio_path, cleanup_audio, result, saved, deleted, calls, outcome>>
    /\ UNCHANGED <<inputVars, configVars, slugVars>>

\* cli.py:99-113: the metadata probe and the look-up of an existing transcript
ProbeExisting ==
    /\ pc = "Classified"
    /\ is_youtube_url(input_source)
    /\ output = NoPath
    /\ calls' = Called("probe")
    /\ \/ Fail(Exc("yt_dlp.DownloadError", "metadata probe failed"))
       \/ /\ EnsureOutputDirCanFail(fs)
          /\ Fail(Exc("OSError", "cannot create the output directory"))
       \/ LET slug_name == slugify(TitleOr(input_source, <<"v","i","d","e","o">>))
              existing_files == GlobExisting(fs, slug_name)
          IN  IF existing_files # {}
              THEN /\ pc' = "SkippedExisting"
                   /\ exit_status' = 0
                   /\ UNCHANGED <<error, escaped>>
              ELSE /\ pc' = "Checked"
                   /\ UNCHANGED <<error, exit_status, escaped>>
    /\ UNCHANGED <<fs, audio_path, cleanup_audio, result, saved, deleted,
                   transcriber, outcome>>
    /\ UNCHANGED <<inputVars, configVars, slugVars>>

\* cli.py:115-116 and download_audio
Download ==
    /\ \/ pc = "Checked"
       \/ pc = "Classified" /\ is_youtube_url(input_source) /\ output # NoPath
    /\ calls' = [calls EXCEPT !.download = @ + 1, !.probe = @ + 1]
    /\ \/ /\ Fail(Exc("yt_dlp.DownloadError", "download failed"))
          /\ UNCHANGED <<fs, audio_path, cleanup_audio>>
       \/ /\ Fail(Exc("FileNotFoundError", "Downloaded file not found"))
          /\ UNCHANGED <<fs, audio_path, cleanup_audio>>
       \/ \E ext \in DownloadExts :
             /\ audio_path' = DownloadPath(input_source, ext)
             /\ fs' = fs \cup {audio_path'}
             /\ cleanup_audio' = CleanupFlag(keep_audio)
             /\ pc' = "AudioReady"
             /\ UNCHANGED <<error, exit_status, escaped>>
    /\ UNCHANGED <<result, saved, deleted, transcriber, outcome>>
    /\ UNCHANGED <<inputVars, configVars, slugVars>>

\* cli.py:140-142 and extract_audio
ConvertLocal ==
    /\ pc = "Classified"
    /\ ~is_youtube_url(input_source)
    /\ needs_conversion(input_source.path, input_source.info)
    /\ calls' = [calls EXCEPT !.convert = @ + 1,
                              !.audio_probe = IF ProbesAudio(input_source.path)
                                              THEN @ + 1 ELSE @]
    /\ \/ /\ Fail(Exc("ffmpeg.Error", "conversion failed"))
          /\ UNCHANGED <<fs, audio_path, cleanup_audio>>
       \/ /\ audio_path' = ExtractPath(input_source.path)
          /\ fs' = fs \cup {audio_path'}
          /\ cleanup_audio' = CleanupFlag(keep_audio)
          /\ pc' = "AudioReady"
          /\ UNCHANGED <<error, exit_status, escaped>>
    /\ UNCHANGED <<result, saved, deleted, transcriber, outcome>>
    /\ UNCHANGED <<inputVars, configVars, slugVars>>

\* cli.py:143-144: the local file is used as it is
PassThroughLocal ==
    /\ pc = "Classified"
    /\ ~is_youtube_url(input_source)
    /\ ~needs_conversion(input_source.path, input_source.info)
    /\ calls' = Called("audio_probe")
    /\ audio_path' = input_source.path
    /\ pc' = "AudioReady"
    /\ UNCHANGED <<fs, cleanup_audio, result, saved, deleted, error,
                   exit_status, escaped, transcriber, outcome>>
    /\ UNCHANGED <<inputVars, configVars, slugVars>>

\* cli.py:147: transcriber.transcribe(audio_path, language=language)
Transcribe ==
    /\ pc = "AudioReady"
    /\ calls' = Called("transcribe")
    /\ \E reply \in BackendReplies :
          /\ outcome' = ProviderTranscribe(transcriber, audio_path \in fs, language, reply)
          /\ IF outcome'.status = "ok"
             THEN /\ result' = outcome'.result
                  /\ pc' = "Transcribed"
                  /\ UNCHANGED <<error, exit_status, escaped>>
             ELSE /\ Fail(outcome'.error)
                  /\ UNCHANGED result
    /\ UNCHANGED <<fs, audio_path, cleanup_audio, saved, deleted, transcriber>>
    /\ UNCHANGED <<inputVars, configVars, slugVars>>

\* cli.py:150-164: the output path and result.save(output)
Persist ==
    /\ pc = "Transcribed"
    /\ LET target == IF output = NoPath THEN DefaultOutput(audio_path) ELSE output
       IN  \/ /\ output = NoPath
              /\ EnsureOutputDirCanFail(fs)
              /\ Fail(Exc("OSError", "cannot create the output directory"))
              /\ UNCHANGED <<fs, saved, calls>>
           \/ /\ calls' = Called("write")
              /\ Fail(Exc("OSError", "write failed"))
              /\ UNCHANGED <<fs, saved>>
           \/ /\ calls' = Called("write")
              /\ fs' = fs \cup {target}
              /\ saved' = target
              /\ pc' = "Persisted"
              /\ UNCHANGED <<error, exit_status, escaped>>
    /\ UNCHANGED <<audio_path, cleanup_audio, result, deleted, transcriber, outcome>>
    /\ UNCHANGED <<inputVars, configVars, slugVars>>

\* cli.py:167-169: audio_path.unlink()
Cleanup ==
    /\ CleanupPoint(pc)
    /\ cleanup_audio /\ audio_path \in fs
    /\ calls' = Called("unlink")
    /\ \/ /\ Fail(Exc("OSError", "unlink failed"))
          /\ UNCHANGED <<fs, deleted>>
       \/ /\ fs' = fs \ {audio_path}
          /\ deleted' = deleted \cup {audio_path}
          /\ pc' = "CleanedUp"
          /\ UNCHANGED <<error, exit_status, escaped>>
    /\ UNCHANGED <<audio_path, cleanup_audio, result, saved, transcriber, outcome>>
    /\ UNCHANGED <<inputVars, configVars, slugVars>>

\* cli.py:171-179: the summary; the command returns
Finish ==
    /\ \/ pc = "CleanedUp"
       \/ pc = "Persisted" /\ ~(cleanup_audio /\ audio_path \in fs)
    /\ pc' = "Done"
    /\ exit_status' = 0
    /\ UNCHANGED <<fs, audio_path, cleanup_audio, result, saved, deleted, calls,
                   error, escaped, transcriber, outcome>>
    /\ UNCHANGED <<inputVars, configVars, slugVars>>

\* cli.py:186-251: the command is invoked again with the same arguments, on the files
\* the completed run left behind
RunAgain ==
    /\ pc = "Done"
    /\ run < MaxRuns
    /\ run' = run + 1
    /\ pc' = "Start"
    /\ fs0' = fs
    /\ transcriber' = NoTranscriber
    /\ outcome' = NoOutcome
    /\ audio_path' = NoPath
    /\ cleanup_audio' = FALSE
    /\ result' = NoResult
    /\ saved' = NoPath
    /\ deleted' = {}
    /\ calls' = NoCalls
    /\ error' = NoError
    /\ exit_status' = -1
    /\ escaped' = FALSE
    /\ UNCHANGED <<fs, provider, input_source, output, language, keep_audio>>
    /\ UNCHANGED <<configVars, slugVars>>

Next ==
    \/ Classify
    \/ ProbeExisting
    \/ Download
    \/ ConvertLocal
    \/ PassThroughLocal
    \/ Transcribe
    \/ Persist
    \/ Cleanup
    \/ Finish
    \/ RunAgain

Spec == Init /\ [][Next]_vars

(***************************************************************************)
(* Claims about the transcribe flow                                        *)
(***************************************************************************)
Terminal == pc \in {"Done", "SkippedExisting", "Failed"}

IsRemote == input_source.kind = "remote"

IsLocal == input_source.kind = "local"

\* the run started with a transcript *-<slug of the title>.md in the output directory
HasExistingTranscript ==
    /\ IsRemote
    /\ \E f \in fs0 :
          /\ f.dir = "output"
          /\ f.ext = <<".","m","d">>
          /\ EndsWith(f.stem, <<"-">> \o slugify(TitleOr(input_source, <<"v","i","d","e","o">>)))

\* the run never learnt the title: the provider has no key, or the probe failed
FailedBeforeTitle ==
    /\ pc = "Failed"
    /\ error.msg \in {"API key not configured", "metadata probe failed"}

SkipsWithoutDownload ==
    /\ calls.download = 0
    /\ calls.convert = 0
    /\ calls.transcribe = 0
    /\ (Terminal /\ ~FailedBeforeTitle) => (pc = "SkippedExisting" /\ exit_status = 0)

\* C1 as stated: a remote source whose title slug has a transcript *-<slug>.md in the
\* output directory is never downloaded, converted or transcribed, and the run ends in
\* SkippedExisting with exit status 0 (unless it fails before the title is known).
C1_SkipsExistingAlways == HasExistingTranscript => SkipsWithoutDownload

\* C1, amended: the same, for a run that was given no explicit output path.
C1_SkipsExistingWithoutOutput ==
    (HasExistingTranscript /\ output = NoPath) => SkipsWithoutDownload

C1_Witness ==
    /\ pc = "SkippedExisting"
    /\ output = NoPath
    /\ input_source.title = <<"a", ":">>
    /\ calls.probe = 1
    /\ calls.download = 0
    /\ exit_status = 0

OwnedTemporary == audio_path.dir = "tmp"

\* C2: the temporary audio file is deleted only after the transcript has been written;
\* a run that fails after the audio file was obtained and before the transcript was
\* written leaves the audio file on disk.
C2_CleanupOnlyAfterPersist ==
    /\ (deleted # {} \/ calls.unlink > 0) => (saved # NoPath /\ saved \in fs)
    /\ (pc = "Failed" /\ OwnedTemporary /\ saved = NoPath) =>
          (audio_path \in fs /\ deleted = {})

C2_Witness ==
    /\ pc = "Failed"
    /\ IsRemote
    /\ OwnedTemporary
    /\ ~keep_audio
    /\ error.msg = "write failed"
    /\ audio_path \in fs

\* C3: only an owned-temporary audio file (a download or the output of extract_audio)
\* is ever deleted, and only without a retention request; the local file the user
\* passed stays on disk, passed through or converted.
C3_OnlyOwnedTemporaryDeleted ==
    /\ \A f \in deleted :
          /\ f = audio_path
          /\ f.dir = "tmp"
          /\ ~keep_audio
          /\ IsLocal => (f # input_source.path
                         /\ needs_conversion(input_source.path, input_source.info))
    /\ (IsLocal /\ input_source.exists) => input_source.path \in fs

C3_Witness ==
    /\ pc = "Done"
    /\ IsLocal
    /\ deleted = {ExtractPath(input_source.path)}
    /\ input_source.path \in fs
    /\ ~keep_audio

\* C4 as stated: a run that has written the transcript with an owned-temporary audio
\* file ends in Done, having deleted the audio file when no retention was requested and
\* with the audio file in place when it was.
C4_PersistedThenCleanedUp ==
    (Terminal /\ saved # NoPath /\ OwnedTemporary) =>
        /\ pc = "Done"
        /\ IF keep_audio
           THEN audio_path \in fs /\ deleted = {}
           ELSE audio_path \notin fs /\ deleted = {audio_path}

\* C5: exit status 0 exactly in Done and SkippedExisting, 1 exactly in Failed; an error
\* raised by any stage ends the run in Failed and never escapes the handler.
C5_ExitStatus ==
    /\ exit_status = 0 <=> pc \in {"Done", "SkippedExisting"}
    /\ exit_status = 1 <=> pc = "Failed"
    /\ error # NoError <=> pc = "Failed"
    /\ outcome.status = "error" => pc = "Failed"
    /\ ~escaped

C5_Witness ==
    /\ pc = "Failed"
    /\ error.cls = "groq.APIError"
    /\ exit_status = 1
    /\ ~escaped

\* the name the claim derives the slug from: the title, or the stem of the input file
SourceName == IF IsRemote THEN input_source.title ELSE input_source.path.stem

\* C12 as stated: without an explicit output path the transcript is written to
\* <base_dir>/<date>-<slug>.md with slug = slugify(title) for a remote source and
\* slugify(stem of the input file) for a local one, converted or not; with an explicit
\* output path it is written to exactly that path.
C12_OutputPath ==
    (saved # NoPath /\ (IsRemote => input_source.title # NoTitle)) =>
        IF output # NoPath
        THEN saved = output
        ELSE saved = Path("output", Today \o <<"-">> \o slugify(SourceName), <<".","m","d">>)

\* C15 as stated: when the deletion of the owned temporary fails after the transcript is
\* persisted, the run still ends in Done with exit status 0 and the transcript stays.
C15_DeletionFailureNotFatal ==
    (Terminal /\ calls.unlink > 0 /\ deleted = {}) =>
        /\ pc = "Done"
        /\ exit_status = 0
        /\ saved \in fs

\* the stage of the flow a position belongs to: the look-up of an existing transcript
\* happens within Classified
Stage(at) == IF at = "Checked" THEN "Classified" ELSE at

StageOrder ==
    {<<"Start", "Classified">>, <<"Classified", "Classified">>,
     <<"Classified", "AudioReady">>, <<"Classified", "SkippedExisting">>,
     <<"AudioReady", "Transcribed">>, <<"Transcribed", "Persisted">>,
     <<"Persisted", "CleanedUp">>, <<"Persisted", "Done">>, <<"CleanedUp", "Done">>,
     <<"Done", "Start">>}

\* C16: every run follows Start -> Classified -> {AudioReady | SkippedExisting} ->
\* Transcribed -> Persisted -> (optional) CleanedUp -> Done, Failed being reachable from
\* every stage that is not final; transcribe is never invoked before an audio file is
\* ready, the transcript is never written before transcribe returned, and the downloader,
\* the converter, transcribe and the write are each invoked at most once per run.
C16_StageOrderNoRetry ==
    /\ [][pc' # pc =>
             \/ <<Stage(pc), Stage(pc')>> \in StageOrder
             \/ pc' = "Failed" /\ ~Terminal]_vars
    /\ [](/\ calls.download <= 1
          /\ calls.convert <= 1
          /\ calls.transcribe <= 1
          /\ calls.write <= 1
          /\ calls.transcribe > 0 => audio_path # NoPath
          /\ calls.write > 0 => (calls.transcribe = 1 /\ result # NoResult))

C16_Witness ==
    /\ pc = "Done"
    /\ run = 1
    /\ calls.download = 1
    /\ calls.transcribe = 1
    /\ calls.write = 1
    /\ calls.unlink = 1
    /\ deleted = {audio_path}

IsDate(s) ==
    /\ Len(s) = 10
    /\ \A i \in 1..10 : IF i \in {5, 8} THEN s[i] = "-" ELSE s[i] \in DigitChars

\* C17 as stated: a remote run reaches SkippedExisting only if the base output directory
\* holds <date>-<slug>.md with slug exactly slugify(title); a transcript whose slug merely
\* ends in -<slug>, or any transcript when the slug is empty, never causes the skip.
C17_SkipsOnlyOnExactSlug ==
    pc = "SkippedExisting" =>
        LET slug == slugify(TitleOr(input_source, <<"v","i","d","e","o">>))
        IN  /\ slug # <<>>
            /\ \E f \in fs0 :
                  /\ f.dir = "output"
                  /\ f.ext = <<".","m","d">>
                  /\ Len(f.stem) = 11 + Len(slug)
                  /\ IsDate(SubSeq(f.stem, 1, 10))
                  /\ SubSeq(f.stem, 11, Len(f.stem)) = <<"-">> \o slug

\* C18 as stated: after a run on a remote URL without an explicit output path ended in
\* Done, a later run on the same URL never invokes the downloader and, unless it fails
\* before the title is known, reaches SkippedExisting.
C18_SecondRunSkips ==
    (run > 1 /\ IsRemote /\ output = NoPath) =>
        /\ calls.download = 0
        /\ (Terminal /\ ~FailedBeforeTitle) => pc = "SkippedExisting"

(***************************************************************************)
(* Claims about the audio normaliser and the validation of the input       *)
(***************************************************************************)
VideoExts == {"mp4", "mkv", "avi", "mov", "webm", "flv"}

\* the extension, lower-cased and without its dot, as one string
ExtName(p) ==
    LET e == Lower(p.ext)
    IN  CASE e = <<".","w","a","v">> -> "wav"
          [] e = <<".","m","p","3">> -> "mp3"
          [] e = <<".","m","p","4">> -> "mp4"
          [] OTHER -> "other"

Conforms(src) ==
    /\ ExtName(src.path) \notin VideoExts
    /\ ExtName(src.path) = "wav"
    /\ ~src.info.empty
    /\ src.info.sample_rate = 16000
    /\ src.info.channels = 1

\* C13: a local file is used as it is (needs_conversion is false) exactly when it is no
\* video, its extension is .wav in any case, and the probe reports 16000 Hz and 1
\* channel; in every other case, a failed or empty probe included, it is converted.
C13_ConversionDecision ==
    (IsLocal /\ audio_path # NoPath) =>
        /\ Conforms(input_source) <=> (audio_path = input_source.path /\ calls.convert = 0)
        /\ ~Conforms(input_source) <=>
              (audio_path = ExtractPath(input_source.path) /\ calls.convert = 1)

C13_Witness ==
    /\ pc = "AudioReady"
    /\ IsLocal
    /\ input_source.path.ext = <<".","W","A","V">>
    /\ input_source.info = [sample_rate |-> 16000, channels |-> 1, empty |-> FALSE]
    /\ audio_path = input_source.path
    /\ calls.convert = 0

InvalidInput ==
    \/ Config[KeyOf(provider)] = ""
    \/ IsLocal /\ ~input_source.exists
    \/ IsLocal /\ ExtName(input_source.path) = "other"

\* C14: with an unconfigured provider, a local path that does not exist, or a local file
\* whose extension is in neither allow-list, the run can only end in Failed with exit
\* status 1; the metadata probe, the downloader, the converter and transcribe are never
\* invoked and no file is written or deleted.
C14_InvalidInputFailsEarly ==
    InvalidInput =>
        /\ pc \in {"Start", "Failed"}
        /\ pc = "Failed" => exit_status = 1
        /\ calls = NoCalls
        /\ fs = fs0
        /\ saved = NoPath
        /\ deleted = {}

C14_Witness ==
    /\ pc = "Failed"
    /\ exit_status = 1
    /\ IsLocal
    /\ input_source.exists
    /\ input_source.path.ext = <<".","x","y","z">>
    /\ Config[KeyOf(provider)] # ""
    /\ calls = NoCalls
    /\ fs = fs0

(***************************************************************************)
(* Claims about the API keys and the providers                             *)
(***************************************************************************)
Constructed == ppc \in {"constructed", "called"}

FirstDefined(seq) ==
    IF \E i \in DOMAIN seq : seq[i] # Absent
    THEN seq[CHOOSE i \in DOMAIN seq :
                seq[i] # Absent /\ \A j \in 1..(i - 1) : seq[j] = Absent]
    ELSE ""

\* C6 as stated: without an override, a key that both the persisted config file and
\* the process environment define (non-empty) is taken from the config file.
C6_FileBeforeEnvironment ==
    Constructed =>
        LET k == KeyOf(transcriber.name)
        IN  /\ Truthy(override_arg) => transcriber.api_key = override_arg
            /\ (~Truthy(override_arg) /\ config_file[k] \notin {Absent, ""}
                                      /\ env0[k] \notin {Absent, ""}) =>
                   transcriber.api_key = config_file[k]

\* C6, amended: override > environment variable > .env file > persisted config file >
\* absent; is_configured() is true iff the key so resolved is not empty.
C6_EnvironmentBeforeFile ==
    Constructed =>
        LET k == KeyOf(transcriber.name)
            key == IF Truthy(override_arg) THEN override_arg
                   ELSE FirstDefined(<<env0[k], dotenv_file[k], config_file[k]>>)
        IN  /\ transcriber.api_key = key
            /\ is_configured(transcriber) <=> key # ""

C6_Witness ==
    /\ ppc = "constructed"
    /\ override_arg = None
    /\ env0[KeyOf(transcriber.name)] = "envkey"
    /\ config_file[KeyOf(transcriber.name)] = "filekey"
    /\ transcriber.api_key = "envkey"

\* C7 as stated: without a language the request asks for auto-detection and carries no
\* language code; with a language it carries exactly that language.
C7_LanguageRequest ==
    (ppc = "called" /\ outcome.request.sent) =>
        IF call_args.language = None
        THEN outcome.request.detect_language /\ outcome.request.language = NoField
        ELSE outcome.request.language = call_args.language

FailureClass(status_code) ==
    IF status_code = 401 THEN "authentication"
    ELSE IF status_code = 429 THEN "rate limit"
    ELSE IF status_code >= 500 THEN "server"
    ELSE "other"

\* C8 as stated: a backend failure surfaces as an error kind of its own class (two
\* failures of different classes never surface as the same kind), after one backend call.
C8_DistinctErrorKinds ==
    (ppc = "called" /\ outcome.request.sent /\ call_args.reply.kind = "http") =>
        /\ outcome.status = "error"
        /\ outcome.netCalls = 1
        /\ \A s \in HttpStatuses :
              FailureClass(s) # FailureClass(call_args.reply.status_code) =>
                 ProviderTranscribe(transcriber, TRUE, call_args.language,
                                    [kind |-> "http", status_code |-> s]).error.cls
                    # outcome.error.cls

\* C9: transcribe makes no backend call for a path that does not exist (FileNotFoundError,
\* configured or not) nor on an unconfigured provider (the not-configured error).
C9_NoCallWithoutPathOrKey ==
    ppc = "called" =>
        /\ ~call_args.exists =>
              /\ outcome.status = "error"
              /\ outcome.error.cls = "FileNotFoundError"
              /\ outcome.netCalls = 0
              /\ ~outcome.request.sent
        /\ (call_args.exists /\ transcriber.api_key = "") =>
              /\ outcome.status = "error"
              /\ outcome.error = [cls |-> "ValueError", msg |-> "API key not configured"]
              /\ outcome.netCalls = 0
              /\ ~outcome.request.sent

C9_Witness ==
    /\ ppc = "called"
    /\ transcriber.name = "groq"
    /\ transcriber.api_key = ""
    /\ ~call_args.exists
    /\ outcome.error.cls = "FileNotFoundError"

(***************************************************************************)
(* Claims about slugify                                                    *)
(***************************************************************************)
IsSlugChar(c) == c \in Range(LowerChars) \cup DigitChars

\* ^[a-z0-9]+(-[a-z0-9]+)*$
MatchesSlugRegex(s) ==
    /\ s # <<>>
    /\ \A i \in DOMAIN s : IsSlugChar(s[i]) \/ s[i] = "-"
    /\ s[1] # "-" /\ s[Len(s)] # "-"
    /\ \A i \in 1..(Len(s) - 1) : ~(s[i] = "-" /\ s[i + 1] = "-")

HasAlnum(s) == \E i \in DOMAIN s : IsAlnum(s[i])

\* C10: slugify(slugify(x)) = slugify(x), and slugify(x) is empty exactly when x
\* has no ASCII alphanumerics and otherwise matches ^[a-z0-9]+(-[a-z0-9]+)*$.
C10_SlugIdempotentAndShaped ==
    /\ slugpc \in {"once", "twice"} =>
          /\ (~HasAlnum(text)) => slug1 = <<>>
          /\ HasAlnum(text) => MatchesSlugRegex(slug1)
    /\ slugpc = "twice" => slug2 = slug1

C10_Witness ==
    /\ slugpc = "twice"
    /\ text = <<" ", "B", "_", "7">>
    /\ slug1 = <<"b", "7">>

Separators == Whitespace \cup {"_"}

\* C11 as stated: a run of whitespace and/or underscores between two alphanumeric
\* characters becomes exactly one hyphen, so the slug of the text is the slug of what
\* precedes the run, a hyphen, and the slug of what follows it; and
\* slugify("My Video! Title_2024") = "my-video-title-2024".
C11_SeparatorRunsBecomeHyphen ==
    slugpc \in {"once", "twice"} =>
        /\ \A i, j \in DOMAIN text :
              (/\ i + 1 < j
               /\ IsAlnum(text[i]) /\ IsAlnum(text[j])
               /\ \A k \in (i + 1)..(j - 1) : text[k] \in Separators)
              => slug1 = slugify(SubSeq(text, 1, i)) \o <<"-">>
                            \o slugify(SubSeq(text, j, Len(text)))
        /\ text = ExampleTitle =>
              slug1 = <<"m","y","-","v","i","d","e","o","-","t","i","t","l","e","-",
                        "2","0","2","4">>

=============================================================================
